---- MODULE Spec2Model ----
(***************************************************************************)
(* A model of genarr (src/src/lib.rs): the generational array GenArray<T>, *)
(* its handle type Index, and the iterators GenArrayIterator and           *)
(* GenArrayIteratorMut.                                                    *)
(*                                                                         *)
(* Option<X> is modelled as a sequence of length at most one: None is <<>> *)
(* and Some(x) is <<x>>.  Vec and VecDeque positions are 0-based in the    *)
(* source and 1-based in TLA+ sequences: position p is element p + 1.      *)
(*                                                                         *)
(* The u32 fields are scaled down: a slot position ranges over             *)
(* 0 .. SlotRange - 1 and a generation over 0 .. GenRange - 1, and the     *)
(* arithmetic on them overflows at those ranges as the u32 arithmetic of   *)
(* the source overflows at 2^32.                                           *)
(***************************************************************************)
EXTENDS Integers, Sequences, FiniteSets

VARIABLES slots, empty, itKind, itPos, itYielded, call, panicked, removed,
          rawArgs, rawTokens

vars == <<slots, empty, itKind, itPos, itYielded, call, panicked, removed,
          rawArgs, rawTokens>>

\* the variables of the callers of Index::into_raw
rawVars == <<rawArgs, rawTokens>>

(***************************************************************************)
(* Bounds                                                                  *)
(***************************************************************************)
\* number of values of the position counter (2^32 in the source)
SlotRange == 3
\* number of values of the generation counter (2^32 in the source)
GenRange == 2
\* bit width of each field of an Index given to into_raw (32 in the source)
RawBits == 3

\* the element type T of GenArray<T>, instantiated with a two-valued type
T == {1, 2}
U32Slot == 0 .. (SlotRange - 1)
U32Gen == 0 .. (GenRange - 1)

None == <<>>
Some(x) == <<x>>
is_some(o) == o /= None
unwrap(o) == o[1]

\* struct Index { slot: u32, generation: u32 }
Index == [slot : U32Slot, generation : U32Gen]

\* one element of slots: Vec<(u32, Option<T>)>
Slot(gen, value) == [gen |-> gen, val |-> value]

\* Vec::get / Vec::get_mut: the element at 0-based position i, if any
slots_get(i) == IF i < Len(slots) THEN Some(slots[i + 1]) ELSE None

(***************************************************************************)
(* GenArray::get and GenArray::get_mut                                     *)
(***************************************************************************)
\* get without the comparison of generations
get_nocheck(index) ==
    LET s == slots_get(index.slot)
    IN  IF is_some(s) /\ is_some(unwrap(s).val) THEN unwrap(s).val ELSE None

get(index) ==
    LET s == slots_get(index.slot)
    IN  IF is_some(s) /\ is_some(unwrap(s).val)
        THEN IF index.generation = unwrap(s).gen
             THEN unwrap(s).val
             ELSE None
        ELSE None

get_mut(index) ==
    LET s == slots_get(index.slot)
    IN  IF is_some(s) /\ is_some(unwrap(s).val)
        THEN IF index.generation = unwrap(s).gen
             THEN unwrap(s).val
             ELSE None
        ELSE None

(***************************************************************************)
(* Index::into_raw, on fields of RawBits bits and a token of 2 * RawBits   *)
(***************************************************************************)
RawField == 0 .. (2 ^ RawBits - 1)

RawIndex == [slot : RawField, generation : RawField]

\* x as u64: zero extension into the token's width
as_u64(x) == x % (2 ^ (2 * RawBits))

\* a << n on u64: the bits shifted beyond the token's width are lost
shl_u64(a, n) == (a * (2 ^ n)) % (2 ^ (2 * RawBits))

\* a | b, bit by bit
RECURSIVE bitor(_, _)
bitor(a, b) ==
    IF a = 0 THEN b
    ELSE IF b = 0 THEN a
    ELSE 2 * bitor(a \div 2, b \div 2) + (IF a % 2 = 1 \/ b % 2 = 1 THEN 1 ELSE 0)

\* into_raw shifting the u32 before widening it: the shift amount is masked to 0
into_raw_shift_u32(index) == bitor(as_u64(index.slot), as_u64(index.generation))

into_raw(index) == bitor(shl_u64(as_u64(index.slot), RawBits), as_u64(index.generation))

(***************************************************************************)
(* The record of the last call: the operation, the Index it returned (push) *)
(* and the Option<T> it returned (get, get_mut, next).                     *)
(***************************************************************************)
Call(op, ret, out) == [op |-> op, ret |-> ret, out |-> out]

\* GenArray::new
Init ==
    /\ slots = <<>>
    /\ empty = <<>>
    /\ itKind = "none"
    /\ itPos = 0
    /\ itYielded = <<>>
    /\ call = Call("new", None, None)
    /\ panicked = FALSE
    /\ removed = {}
    /\ rawArgs = <<>>
    /\ rawTokens = <<>>

\* no iterator borrows the array
Unborrowed == itKind = "none"

(***************************************************************************)
(* GenArray::push                                                          *)
(***************************************************************************)
\* self.slots[index].0 + 1 on u32 overflows
generation_overflows(g) == g + 1 > GenRange - 1

\* the slot table after the reuse branch stored (generation, Some(value))
push_reuse_slots(index, generation, value) ==
    [slots EXCEPT ![index + 1] = Slot(generation, Some(value))]

\* the slot table after the append branch
push_append_slots(value) == Append(slots, Slot(0, Some(value)))

\* (self.slots.len() - 1).try_into(): Err when the position does not fit u32
try_into_fails(n) == n > SlotRange - 1

\* self.empty.pop_front(): the position taken and the queue left
pop_front_position == Head(empty)

pop_front_rest == Tail(empty)

Push(value) ==
    /\ ~panicked
    /\ Unborrowed
    /\ UNCHANGED <<itKind, itPos, itYielded>>
    /\ IF empty /= <<>>
       THEN LET index == pop_front_position
                g == slots[index + 1].gen
            IN  /\ empty' = pop_front_rest
                /\ IF generation_overflows(g)
                   THEN \* with overflow checks the sum panics, without it wraps to 0
                        \E overflow_checks \in BOOLEAN :
                            IF overflow_checks
                            THEN /\ slots' = slots
                                 /\ panicked' = TRUE
                                 /\ call' = Call("push", None, None)
                            ELSE /\ slots' = push_reuse_slots(index, 0, value)
                                 /\ panicked' = FALSE
                                 /\ call' = Call("push",
                                        Some([slot |-> index,
                                              generation |-> slots'[index + 1].gen]),
                                        None)
                   ELSE /\ slots' = push_reuse_slots(index, g + 1, value)
                        /\ panicked' = FALSE
                        /\ call' = Call("push",
                                        Some([slot |-> index,
                                              generation |-> slots'[index + 1].gen]),
                                        None)
       ELSE /\ empty' = empty
            /\ slots' = push_append_slots(value)
            /\ IF try_into_fails(Len(slots') - 1)
               THEN /\ panicked' = TRUE
                    /\ call' = Call("push", None, None)
               ELSE /\ panicked' = FALSE
                    /\ call' = Call("push",
                                    Some([slot |-> Len(slots') - 1, generation |-> 0]),
                                    None)

(***************************************************************************)
(* GenArray::remove                                                        *)
(***************************************************************************)
\* remove without the comparison of generations
remove_matches_nogen(index) ==
    LET s == slots_get(index.slot)
    IN  is_some(s) /\ is_some(unwrap(s).val)

\* remove without the test that the slot is occupied
remove_matches_nosome(index) ==
    LET s == slots_get(index.slot)
    IN  is_some(s) /\ unwrap(s).gen = index.generation

\* the condition under which remove changes anything
remove_matches(index) ==
    LET s == slots_get(index.slot)
    IN  is_some(s) /\ unwrap(s).gen = index.generation /\ is_some(unwrap(s).val)

\* the position pushed to the front of the queue
remove_empty_front(index) == <<index.slot>> \o empty

\* self.empty.push_back(index.slot)
remove_empty(index) == Append(empty, index.slot)

Remove(index) ==
    /\ ~panicked
    /\ Unborrowed
    /\ UNCHANGED <<itKind, itPos, itYielded, panicked>>
    /\ call' = Call("remove", None, None)
    /\ IF remove_matches(index)
       THEN /\ slots' = [slots EXCEPT ![index.slot + 1].val = None]
            /\ empty' = remove_empty(index)
       ELSE UNCHANGED <<slots, empty>>

(***************************************************************************)
(* Calls of get, and of get_mut followed by a write through the reference. *)
(* The callers modelled here call get while no iterator is alive.          *)
(***************************************************************************)
Get(index) ==
    /\ ~panicked
    /\ Unborrowed
    /\ call' = Call("get", None, get(index))
    /\ UNCHANGED <<slots, empty, itKind, itPos, itYielded, panicked>>

\* a write that reaches every occupied slot
write_slots_all(pos, value) ==
    [p \in DOMAIN slots |->
        IF is_some(slots[p].val) THEN Slot(slots[p].gen, Some(value)) ELSE slots[p]]

\* the slot table after *reference = value, for the reference to position pos
write_slots(pos, value) == [slots EXCEPT ![pos + 1].val = Some(value)]

\* if let Some(reference) = arr.get_mut(index) { *reference = value }
GetMut(index, value) ==
    /\ ~panicked
    /\ Unborrowed
    /\ call' = Call("get_mut", None, get_mut(index))
    /\ IF is_some(get_mut(index))
       THEN slots' = write_slots(index.slot, value)
       ELSE slots' = slots
    /\ UNCHANGED <<empty, itKind, itPos, itYielded, panicked>>

(***************************************************************************)
(* GenArray::iter, GenArray::iter_mut and the two Iterator::next            *)
(***************************************************************************)
Min(S) == CHOOSE x \in S : \A y \in S : x <= y

\* the search starting one slot too late
next_occupied_slot_skip(pos) ==
    LET found == {k \in 1 .. (Len(slots) - pos - 1) : is_some(slots[pos + k + 1].val)}
    IN  IF found = {} THEN None ELSE Some(Min(found))

\* self.arr.slots[pos..].iter().position(|s| s.1.is_some()), GenArrayIterator
next_occupied_slot(pos) ==
    LET found == {k \in 0 .. (Len(slots) - pos - 1) : is_some(slots[pos + k + 1].val)}
    IN  IF found = {} THEN None ELSE Some(Min(found))

\* the same search in GenArrayIteratorMut
next_occupied_slot_mut(pos) ==
    LET found == {k \in 0 .. (Len(slots) - pos - 1) : is_some(slots[pos + k + 1].val)}
    IN  IF found = {} THEN None ELSE Some(Min(found))

\* iter sharing the cursor of the traversal before it
Iter_shared_cursor ==
    /\ ~panicked
    /\ itKind \in {"none", "iter"}
    /\ itKind' = "iter"
    /\ itPos' = itPos
    /\ itYielded' = <<>>
    /\ call' = Call("iter", None, None)
    /\ UNCHANGED <<slots, empty, panicked>>

Iter ==
    /\ ~panicked
    /\ itKind \in {"none", "iter"}
    /\ itKind' = "iter"
    /\ itPos' = 0
    /\ itYielded' = <<>>
    /\ call' = Call("iter", None, None)
    /\ UNCHANGED <<slots, empty, panicked>>

IterMut ==
    /\ ~panicked
    /\ Unborrowed
    /\ itKind' = "iter_mut"
    /\ itPos' = 0
    /\ itYielded' = <<>>
    /\ call' = Call("iter_mut", None, None)
    /\ UNCHANGED <<slots, empty, panicked>>

\* GenArrayIterator::next
IterNext ==
    /\ itKind = "iter"
    /\ IF itPos >= Len(slots)
       THEN /\ call' = Call("next", None, None)
            /\ UNCHANGED <<itPos, itYielded>>
       ELSE IF is_some(next_occupied_slot(itPos))
            THEN /\ itPos' = itPos + unwrap(next_occupied_slot(itPos)) + 1
                 /\ itYielded' = Append(itYielded, itPos' - 1)
                 /\ call' = Call("next", None, Some(unwrap(slots[itPos'].val)))
            ELSE /\ call' = Call("next", None, None)
                 /\ UNCHANGED <<itPos, itYielded>>
    /\ UNCHANGED <<slots, empty, itKind, panicked>>

\* next without self.pos += 1
IterMutNext_no_step ==
    /\ itKind = "iter_mut"
    /\ IF itPos >= Len(slots)
       THEN /\ call' = Call("next_mut", None, None)
            /\ UNCHANGED <<itPos, itYielded>>
       ELSE IF is_some(next_occupied_slot_mut(itPos))
            THEN /\ itPos' = itPos + unwrap(next_occupied_slot_mut(itPos))
                 /\ itYielded' = Append(itYielded, itPos')
                 /\ call' = Call("next_mut", None, Some(unwrap(slots[itPos' + 1].val)))
            ELSE /\ call' = Call("next_mut", None, None)
                 /\ UNCHANGED <<itPos, itYielded>>
    /\ UNCHANGED <<slots, empty, itKind, panicked>>

\* GenArrayIteratorMut::next
IterMutNext ==
    /\ itKind = "iter_mut"
    /\ IF itPos >= Len(slots)
       THEN /\ call' = Call("next_mut", None, None)
            /\ UNCHANGED <<itPos, itYielded>>
       ELSE IF is_some(next_occupied_slot_mut(itPos))
            THEN /\ itPos' = itPos + unwrap(next_occupied_slot_mut(itPos)) + 1
                 /\ itYielded' = Append(itYielded, itPos' - 1)
                 /\ call' = Call("next_mut", None, Some(unwrap(slots[itPos'].val)))
            ELSE /\ call' = Call("next_mut", None, None)
                 /\ UNCHANGED <<itPos, itYielded>>
    /\ UNCHANGED <<slots, empty, itKind, panicked>>

\* *reference = value for the i-th reference a GenArrayIteratorMut yielded
WriteYielded(i, value) ==
    /\ itKind = "iter_mut"
    /\ i \in 1 .. Len(itYielded)
    /\ slots' = write_slots(itYielded[i], value)
    /\ call' = Call("write", None, None)
    /\ UNCHANGED <<empty, itKind, itPos, itYielded, panicked>>

\* the iterator and the references it yielded go out of scope
DropIter ==
    /\ itKind /= "none"
    /\ itKind' = "none"
    /\ itPos' = 0
    /\ itYielded' = <<>>
    /\ call' = Call("drop", None, None)
    /\ UNCHANGED <<slots, empty, panicked>>

(***************************************************************************)
(* Specifications                                                          *)
(***************************************************************************)
Next ==
    \/ \E value \in T : Push(value) /\ UNCHANGED <<removed, rawVars>>
    \/ \E index \in Index : Remove(index) /\ UNCHANGED <<removed, rawVars>>
    \/ \E index \in Index : Get(index) /\ UNCHANGED <<removed, rawVars>>
    \/ \E index \in Index, value \in T : GetMut(index, value) /\ UNCHANGED <<removed, rawVars>>
    \/ Iter /\ UNCHANGED <<removed, rawVars>>
    \/ IterMut /\ UNCHANGED <<removed, rawVars>>
    \/ IterNext /\ UNCHANGED <<removed, rawVars>>
    \/ IterMutNext /\ UNCHANGED <<removed, rawVars>>
    \/ \E i \in 1 .. SlotRange, value \in T : WriteYielded(i, value) /\ UNCHANGED <<removed, rawVars>>
    \/ DropIter /\ UNCHANGED <<removed, rawVars>>

Spec == Init /\ [][Next]_vars

\* the same program, remembering every handle that remove was given while valid
RemoveRemembered(index) ==
    /\ Remove(index)
    /\ removed' = IF remove_matches(index) THEN removed \cup {index} ELSE removed

NextHist ==
    \/ \E value \in T : Push(value) /\ UNCHANGED <<removed, rawVars>>
    \/ \E index \in Index : RemoveRemembered(index) /\ UNCHANGED rawVars
    \/ \E index \in Index : Get(index) /\ UNCHANGED <<removed, rawVars>>

SpecHist == Init /\ [][NextHist]_vars

\* two handles are converted to tokens
InitRaw ==
    /\ slots = <<>>
    /\ empty = <<>>
    /\ itKind = "none"
    /\ itPos = 0
    /\ itYielded = <<>>
    /\ call = Call("new", None, None)
    /\ panicked = FALSE
    /\ removed = {}
    /\ rawArgs \in RawIndex \X RawIndex
    /\ rawTokens = <<>>

IntoRaw ==
    /\ rawTokens = <<>>
    /\ rawTokens' = <<into_raw(rawArgs[1]), into_raw(rawArgs[2])>>
    /\ call' = Call("into_raw", None, None)
    /\ UNCHANGED <<slots, empty, itKind, itPos, itYielded, panicked, removed, rawArgs>>

NextRaw == IntoRaw

SpecRaw == InitRaw /\ [][NextRaw]_vars

(***************************************************************************)
(* The vocabulary of the properties                                        *)
(***************************************************************************)
\* a handle is valid: position within the table, same generation, occupied
Valid(h) ==
    /\ h.slot + 1 \in DOMAIN slots
    /\ slots[h.slot + 1].gen = h.generation
    /\ slots[h.slot + 1].val /= None

\* what a lookup of h is to return
Lookup(h) == IF Valid(h) THEN slots[h.slot + 1].val ELSE None

Occupied(p) == p + 1 \in DOMAIN slots /\ slots[p + 1].val /= None

Tombstoned(p) == p + 1 \in DOMAIN slots /\ slots[p + 1].val = None

InFreeList(p) == \E i \in DOMAIN empty : empty[i] = p

\* the handle that is valid for the occupied position p
HandleAt(p) == [slot |-> p, generation |-> slots[p + 1].gen]

\* the occupied positions below n, ascending
RECURSIVE OccupiedBelow(_)
OccupiedBelow(n) ==
    IF n = 0 THEN <<>>
    ELSE IF Occupied(n - 1) THEN Append(OccupiedBelow(n - 1), n - 1)
    ELSE OccupiedBelow(n - 1)

\* every slot but position p is as it was, and so are the table length and the free list
OnlyValueOf(p) ==
    /\ Len(slots') = Len(slots)
    /\ empty' = empty
    /\ \A q \in DOMAIN slots :
          /\ slots'[q].gen = slots[q].gen
          /\ (slots'[q].val = None) <=> (slots[q].val = None)
          /\ q /= p + 1 => slots'[q] = slots[q]

(***************************************************************************)
(* C1: a handle returned by push(v) looks up v right after the push, and   *)
(* no push and no remove of a different handle changes what the lookup of  *)
(* a valid handle returns: a remove step that changes the lookup of a      *)
(* valid handle h is the remove of no handle but h.                        *)
(***************************************************************************)
C1_HandleValidUntilRemoved ==
    [][ /\ call'.op = "push" =>
              \A value \in T :
                  Push(value) =>
                      /\ ~panicked' => get(unwrap(call.ret))' = Some(value)
                      /\ \A h \in Index : is_some(get(h)) => get(h)' = get(h)
        /\ call'.op = "remove" =>
              \A h \in Index :
                  (is_some(get(h)) /\ get(h)' /= get(h)) =>
                      \A h2 \in Index \ {h} : ~Remove(h2)
      ]_vars

\* a push reused position 1 while the handle (0, 0) of an earlier push is still valid
C1_Witness ==
    /\ call.op = "push"
    /\ call.ret = Some([slot |-> 1, generation |-> 1])
    /\ is_some(get([slot |-> 0, generation |-> 0]))
    /\ get(unwrap(call.ret)) /= get([slot |-> 0, generation |-> 0])

(***************************************************************************)
(* C2: a handle that remove was given while it was valid looks up absent   *)
(* in every later state.                                                   *)
(***************************************************************************)
C2_RemovedStaysAbsent == \A h \in removed : get(h) = None

(***************************************************************************)
(* C3: remove of a handle that is not valid changes neither the slot table *)
(* nor the free list, and does not fail: a remove step that changes one of *)
(* them, or fails, is the remove of a valid handle only.                   *)
(***************************************************************************)
C3_RemoveInvalidIsNoOp ==
    [][ (call'.op = "remove" /\ (slots' /= slots \/ empty' /= empty \/ panicked')) =>
            \A h \in Index : Remove(h) => Valid(h)
      ]_vars

\* a remove enqueued nothing although position 0 has been reused
C3_Witness ==
    /\ call.op = "remove"
    /\ empty = <<>>
    /\ Len(slots) = 2
    /\ slots[1].gen = 1

C5_PushReusesOrAppends ==
    [][ \A value \in T :
            Push(value) =>
                IF empty /= <<>>
                THEN /\ ~panicked'
                     /\ Len(slots') = Len(slots)
                     /\ empty' = Tail(empty)
                     /\ call'.ret = Some([slot |-> Head(empty),
                                          generation |-> slots[Head(empty) + 1].gen + 1])
                     /\ slots'[Head(empty) + 1].val = Some(value)
                ELSE /\ Len(slots') = Len(slots) + 1
                     /\ slots'[Len(slots')] = Slot(0, Some(value))
                     /\ ~panicked' => call'.ret = Some([slot |-> Len(slots), generation |-> 0])
      ]_vars

(***************************************************************************)
(* C6: get and get_mut return the value at the handle's position iff the   *)
(* position is within the table, the generations are equal and the slot is *)
(* occupied, and absent otherwise; get changes neither the slot table nor  *)
(* the free list and does not fail: a get step, or a get_mut step, that    *)
(* returns something else than the lookup of h is no call with h.          *)
(***************************************************************************)
C6_LookupIffValid ==
    /\ [](\A h \in Index : get(h) = Lookup(h) /\ get_mut(h) = Lookup(h))
    /\ [][ call'.op = "get" =>
               /\ slots' = slots
               /\ empty' = empty
               /\ ~panicked'
               /\ \A h \in Index : call'.out /= Lookup(h) => ~Get(h)
         ]_vars
    /\ [][ call'.op = "get_mut" =>
               /\ ~panicked'
               /\ \A h \in Index : call'.out /= Lookup(h) => \A w \in T : ~GetMut(h, w)
         ]_vars

\* a get returned a value while position 0, reused once, is tombstoned again
C6_Witness ==
    /\ call.op = "get"
    /\ is_some(call.out)
    /\ Tombstoned(0)
    /\ slots[1].gen = 1

(***************************************************************************)
(* C7: a traversal by iter or iter_mut yields occupied positions only, in  *)
(* strictly ascending order, each yield being the value of its slot, and a *)
(* complete traversal has yielded every occupied position.                 *)
(***************************************************************************)
C7_TraversalYieldsOccupied ==
    /\ itYielded = OccupiedBelow(itPos)
    /\ (call.op \in {"next", "next_mut"} /\ is_some(call.out)) =>
           call.out = slots[itYielded[Len(itYielded)] + 1].val
    /\ (call.op \in {"next", "next_mut"} /\ call.out = None) =>
           itYielded = OccupiedBelow(Len(slots))

\* a complete traversal of a table whose positions 0 and 1 are tombstoned
C7_Witness ==
    /\ call.op = "next"
    /\ call.out = None
    /\ Len(slots) = 3
    /\ Tombstoned(0)
    /\ Tombstoned(1)
    /\ itYielded = <<2>>

(***************************************************************************)
(* C8: a slot is created occupied with generation 0, remove takes          *)
(* Occupied(g) to Tombstoned(g), push takes Tombstoned(g) to               *)
(* Occupied(g + 1), and a slot makes no other transition.                  *)
(***************************************************************************)
C8_SlotStateMachine ==
    [][ /\ Len(slots') >= Len(slots)
        /\ \A q \in DOMAIN slots' :
              IF q \notin DOMAIN slots
              THEN slots'[q].gen = 0 /\ slots'[q].val /= None
              ELSE \/ /\ slots'[q].gen = slots[q].gen
                      /\ (slots'[q].val = None) <=> (slots[q].val = None)
                   \/ /\ slots[q].val /= None
                      /\ slots'[q].val = None
                      /\ slots'[q].gen = slots[q].gen
                   \/ /\ slots[q].val = None
                      /\ slots'[q].val /= None
                      /\ slots'[q].gen = slots[q].gen + 1
      ]_vars

(***************************************************************************)
(* C9: a write of w through get_mut(h) for a valid h, or through a         *)
(* reference that iter_mut yielded, makes get of that slot's handle return *)
(* w and changes nothing but that slot's value.                            *)
(***************************************************************************)
C9_WriteIsObservedAndFramed ==
    [][ /\ call'.op = "get_mut" =>
              \A h \in Index, w \in T :
                  (Valid(h) /\ GetMut(h, w)) =>
                      /\ get(h)' = Some(w)
                      /\ OnlyValueOf(h.slot)
        /\ call'.op = "write" =>
              \A i \in 1 .. Len(itYielded), w \in T :
                  WriteYielded(i, w) =>
                      /\ get(HandleAt(itYielded[i]))' = Some(w)
                      /\ OnlyValueOf(itYielded[i])
      ]_vars

\* get_mut returned the old value 1 and every occupied slot now holds 2
C9_Witness ==
    /\ call.op = "get_mut"
    /\ call.out = Some(1)
    /\ Len(slots) = 2
    /\ \A q \in DOMAIN slots : slots[q].val = Some(2)

(***************************************************************************)
(* C10: into_raw is slot * 2^RawBits + generation, fits the token's        *)
(* 2 * RawBits bits, and gives two handles the same token iff they are     *)
(* equal.                                                                   *)
(***************************************************************************)
C10_IntoRawPacksInjectively ==
    rawTokens /= <<>> =>
        /\ rawTokens[1] = rawArgs[1].slot * (2 ^ RawBits) + rawArgs[1].generation
        /\ rawTokens[1] \div (2 ^ RawBits) = rawArgs[1].slot
        /\ rawTokens[1] % (2 ^ RawBits) = rawArgs[1].generation
        /\ rawTokens[1] < 2 ^ (2 * RawBits)
        /\ (rawTokens[1] = rawTokens[2]) <=> (rawArgs[1] = rawArgs[2])

\* the tokens of the handles (max, 1) and (1, max) were computed
C10_Witness ==
    /\ rawTokens /= <<>>
    /\ rawArgs[1] = [slot |-> 2 ^ RawBits - 1, generation |-> 1]
    /\ rawArgs[2] = [slot |-> 1, generation |-> 2 ^ RawBits - 1]
    /\ rawTokens[1] /= rawTokens[2]

(***************************************************************************)
(* C11: push fails iff the free list is empty and the table already holds  *)
(* as many slots as the position counter has values; a push that reuses a  *)
(* position of the free list never fails, whatever the slot's generation.  *)
(***************************************************************************)
C11_PushFailsOnlyAtCapacity ==
    [][ call'.op = "push" =>
            \A value \in T :
                Push(value) =>
                    (panicked' <=> (empty = <<>> /\ Len(slots) = SlotRange))
      ]_vars

(***************************************************************************)
(* C12: a push that fails leaves the slot table and the free list as they  *)
(* were before the call, and every occupied slot of every state has a      *)
(* position that a handle can hold.                                        *)
(***************************************************************************)
C12_FailedPushChangesNothing ==
    [][ (call'.op = "push" /\ panicked' /\ empty = <<>>) =>
            (slots' = slots /\ empty' = empty)
      ]_vars

(***************************************************************************)
(* C13: iter and the next of its iterator change neither the slot table    *)
(* nor the free list, and every call of iter starts a traversal at         *)
(* position 0 with nothing yielded, also while an earlier traversal is     *)
(* partially consumed; what a complete traversal has yielded is determined *)
(* by the slot table alone, so two traversals of an unmodified array yield *)
(* the same sequence.                                                      *)
(***************************************************************************)
C13_IterRestartsAndChangesNothing ==
    /\ [][ call'.op \in {"iter", "next"} =>
               /\ slots' = slots
               /\ empty' = empty
               /\ ~panicked'
               /\ call'.op = "iter" => (itPos' = 0 /\ itYielded' = <<>>)
         ]_vars
    /\ []((itKind = "iter" /\ call.op = "next" /\ call.out = None) =>
              itYielded = OccupiedBelow(Len(slots)))

\* a complete traversal by iter of a table whose position 1 is tombstoned
C13_Witness ==
    /\ itKind = "iter"
    /\ call.op = "next"
    /\ call.out = None
    /\ Len(slots) = 3
    /\ Tombstoned(1)
    /\ empty = <<1>>
    /\ itYielded = <<0, 2>>

(***************************************************************************)
(* C14: within one traversal every yield moves the cursor forward, beyond  *)
(* the position yielded, so no position is yielded twice and at most       *)
(* table-length positions are yielded; and once next has returned None it  *)
(* returns None on every later call of the traversal.                      *)
(***************************************************************************)
\* no occupied position at or beyond the cursor
Exhausted == \A q \in DOMAIN slots : q > itPos => slots[q].val = None

C14_TraversalAdvancesAndEnds ==
    /\ [][ call'.op \in {"next", "next_mut"} =>
               /\ is_some(call'.out) =>
                      /\ itPos' > itPos
                      /\ Len(itYielded') = Len(itYielded) + 1
                      /\ itYielded'[Len(itYielded')] >= itPos
                      /\ itYielded'[Len(itYielded')] < itPos'
               /\ call'.out = None => (Exhausted' /\ itPos' = itPos)
               /\ Exhausted => call'.out = None
         ]_vars
    /\ [][ (Exhausted /\ call'.op = "write") => Exhausted' ]_vars
    /\ [](/\ Len(itYielded) <= Len(slots)
          /\ \A i, j \in DOMAIN itYielded : i < j => itYielded[i] < itYielded[j]
          /\ \A i \in DOMAIN itYielded : itYielded[i] < itPos)

\* next of an iter_mut traversal returned None after it yielded positions 0 and 2
C14_Witness ==
    /\ itKind = "iter_mut"
    /\ call.op = "next_mut"
    /\ call.out = None
    /\ itYielded = <<0, 2>>
    /\ Len(slots) = 3
    /\ slots[1].val = Some(2)
    /\ slots[3].val = Some(1)

(***************************************************************************)
(* C15: remove of a valid handle makes the value of its slot absent and    *)
(* appends its position at the tail of the free list; the generation of    *)
(* the slot, the table length, every other slot and the order of the free  *)
(* list are unchanged; no step makes the table shorter.                    *)
(***************************************************************************)
C15_RemoveFrame ==
    [][ /\ Len(slots') >= Len(slots)
        /\ call'.op = "remove" =>
              \A h \in Index :
                  (Valid(h) /\ Remove(h)) =>
                      /\ Len(slots') = Len(slots)
                      /\ slots'[h.slot + 1] = Slot(slots[h.slot + 1].gen, None)
                      /\ \A q \in DOMAIN slots : q /= h.slot + 1 => slots'[q] = slots[q]
                      /\ empty' = empty \o <<h.slot>>
                      /\ ~panicked'
      ]_vars

\* position 0 was tombstoned after position 1, and position 2 is occupied
C15_Witness ==
    /\ call.op = "remove"
    /\ empty = <<1, 0>>
    /\ Len(slots) = 3
    /\ Occupied(2)

(***************************************************************************)
(* C16: no two pushes return equal handles, and at most one handle is      *)
(* valid for a position.  A handle returned by an earlier push is valid    *)
(* still, or is one that remove was given while it was valid: a push       *)
(* returns neither.                                                        *)
(***************************************************************************)
C16_PushReturnsFreshHandle ==
    /\ [][ (call'.op = "push" /\ ~panicked') =>
               /\ unwrap(call'.ret) \notin removed
               /\ ~Valid(unwrap(call'.ret))
         ]_vars
    /\ [](\A h1, h2 \in Index : (Valid(h1) /\ Valid(h2) /\ h1.slot = h2.slot) => h1 = h2)

====
